---------------------------- MODULE Spec2Model ----------------------------
(***************************************************************************)
(* A model of mr-comment (src/src/main.rs): the diff normalizer inside     *)
(* get_diff_from_git, truncate_diff, and the sequential pipeline of main.  *)
(*                                                                         *)
(* Text is modelled as a sequence of tokens.  A token is a piece of a      *)
(* string that the program never looks inside: the newline "\n", the       *)
(* space " ", the prefix "a/", a file name, a word of a diff line.  The    *)
(* string operations of the program (str::lines, join, starts_with,        *)
(* split, trim_start_matches, trim) are operators on token sequences that  *)
(* do what the Rust library does.                                          *)
(***************************************************************************)
EXTENDS Naturals, Sequences, FiniteSets, TLC

VARIABLES
    trunc,        \* truncate_diff applied to an input, and again to its output
    scan,         \* the normalizer's loop over git's output
    argv,         \* the command line
    env,          \* the environment variables
    config_file,  \* what is at ~/.mr-comment
    pc,           \* the position of main
    cli,          \* Cli::parse()
    config,       \* Config::load()
    settings,     \* api_key, endpoint, model
    git_args,     \* the arguments git was run with
    main_diff,    \* the diff main holds
    mr_comment,   \* the text the provider returned
    stages,       \* the stages of the pipeline run so far, in order
    sent,         \* the requests sent to the provider, each with what came back
    stdout,       \* what was printed on standard output
    out_file,     \* the output file
    exit          \* how the run ended

pvars == <<argv, env, config_file, pc, cli, config, settings, git_args, main_diff,
           mr_comment, stages, sent, stdout, out_file, exit>>

vars == <<trunc, scan, pvars>>

----------------------------------------------------------------------------
(* Strings                                                                 *)

NL == "\n"
CR == "\r"
SP == " "

\* The sequences over S of length at most n.
SeqsUpTo(S, n) == UNION {[1..k -> S] : k \in 0..n}

\* The index of the first occurrence of token t in s, or 0.
IndexOf(s, t) ==
    IF \E i \in 1..Len(s) : s[i] = t
    THEN CHOOSE i \in 1..Len(s) : s[i] = t /\ \A j \in 1..(i-1) : s[j] # t
    ELSE 0

\* str::strip_suffix('\r') of a line whose "\n" has been stripped.
StripCR(l) ==
    IF Len(l) > 0 /\ l[Len(l)] = CR THEN SubSeq(l, 1, Len(l) - 1) ELSE l

\* str::lines(): the text is cut after each "\n" (split_inclusive), and
\* each piece loses its "\n" and then a "\r" before it.  A last piece
\* without "\n" is a line as it is; an empty last piece is no line.
RECURSIVE Lines(_)
Lines(s) ==
    IF s = <<>> THEN <<>>
    ELSE LET i == IndexOf(s, NL)
         IN IF i = 0 THEN <<s>>
            ELSE <<StripCR(SubSeq(s, 1, i - 1))>> \o Lines(SubSeq(s, i + 1, Len(s)))

\* [&str]::join("\n")
RECURSIVE Join(_)
Join(ls) ==
    IF ls = <<>> THEN <<>>
    ELSE IF Len(ls) = 1 THEN ls[1]
    ELSE ls[1] \o <<NL>> \o Join(Tail(ls))

\* str::starts_with(prefix)
StartsWith(l, prefix) ==
    Len(l) >= Len(prefix) /\ SubSeq(l, 1, Len(prefix)) = prefix

----------------------------------------------------------------------------
(* truncate_diff                                                           *)

\* The content of the inserted marker line.
TRUNCATED == "[...diff truncated...]"

\* Variants of truncate_diff with one change each.
\* `<` for `<=` in the early return.
truncate_diff_lt(diff, max_lines) ==
    LET lines == Lines(diff)
        original_len == Len(lines)
    IN IF Len(lines) < max_lines
       THEN [text |-> diff, original_len |-> original_len]
       ELSE [text |-> Join(SubSeq(lines, 1, max_lines \div 2))
                        \o <<NL, TRUNCATED, NL>>
                        \o Join(SubSeq(lines, Len(lines) - (max_lines \div 2) + 1, Len(lines))),
             original_len |-> original_len]

\* The head rounded up instead of down.
truncate_diff_ceil(diff, max_lines) ==
    LET lines == Lines(diff)
        original_len == Len(lines)
    IN IF Len(lines) <= max_lines
       THEN [text |-> diff, original_len |-> original_len]
       ELSE [text |-> Join(SubSeq(lines, 1, (max_lines + 1) \div 2))
                        \o <<NL, TRUNCATED, NL>>
                        \o Join(SubSeq(lines, Len(lines) - (max_lines \div 2) + 1, Len(lines))),
             original_len |-> original_len]

\* The tail taken from index max_lines/2 instead of len - max_lines/2.
truncate_diff_tail(diff, max_lines) ==
    LET lines == Lines(diff)
        original_len == Len(lines)
    IN IF Len(lines) <= max_lines
       THEN [text |-> diff, original_len |-> original_len]
       ELSE [text |-> Join(SubSeq(lines, 1, max_lines \div 2))
                        \o <<NL, TRUNCATED, NL>>
                        \o Join(SubSeq(lines, (max_lines \div 2) + 1, Len(lines))),
             original_len |-> original_len]

\* fn truncate_diff(diff: &str, max_lines: usize) -> (String, usize)
truncate_diff(diff, max_lines) ==
    LET lines == Lines(diff)
        original_len == Len(lines)
    IN IF Len(lines) <= max_lines
       THEN [text |-> diff, original_len |-> original_len]
       ELSE [text |-> Join(SubSeq(lines, 1, max_lines \div 2))
                        \o <<NL, TRUNCATED, NL>>
                        \o Join(SubSeq(lines, Len(lines) - (max_lines \div 2) + 1, Len(lines))),
             original_len |-> original_len]


----------------------------------------------------------------------------
(* The diff normalizer of get_diff_from_git                                *)

\* Option<T>: None is the empty sequence, Some(x) the sequence of x alone.
None == <<>>
Some(x) == <<x>>

\* The prefixes the scan tests lines for.
BinaryPrefix == <<"Binary files">>
DiffGitPrefix == <<"diff", SP, "--git">>
DeletedMarker == <<"+++", SP, "/dev/null">>
NewMarker == <<"---", SP, "/dev/null">>

\* The pieces of the summary.  BULLET stands for the bullet character
\* U+2022 followed by a space.
BULLET == "* "
NewFilesTitle == "New files:"
DeletedFilesTitle == "Deleted files:"

\* str::split(' '): the pieces between the spaces, empty ones included.
RECURSIVE Split(_)
Split(l) ==
    LET i == IndexOf(l, SP)
    IN IF i = 0 THEN <<l>>
       ELSE <<SubSeq(l, 1, i - 1)>> \o Split(SubSeq(l, i + 1, Len(l)))

\* str::trim_start_matches("a/"): every leading repetition is removed.
RECURSIVE TrimStartMatches(_, _)
TrimStartMatches(w, t) ==
    IF Len(w) > 0 /\ w[1] = t THEN TrimStartMatches(Tail(w), t) ELSE w

\* str::trim().is_empty(): the text holds nothing but white space.
WhiteSpace == {NL, CR, SP, "\t"}
TrimIsEmpty(s) == \A i \in 1..Len(s) : s[i] \in WhiteSpace

\* line.split(' ').nth(2).map(|s| s.trim_start_matches("a/").to_string())
header_path(line) ==
    LET words == Split(line)
    IN IF Len(words) >= 3 THEN Some(TrimStartMatches(words[3], "a/")) ELSE None

\* The state of the scan before the first line.
ScanStart ==
    [filtered_lines |-> <<>>, new_files |-> <<>>, deleted_files |-> <<>>,
     current_file |-> None, in_delete |-> FALSE, in_new |-> FALSE]

\* A variant of flush_file that tests in_delete before in_new.
flush_file_delete_first(st) ==
    IF st.current_file = None THEN st
    ELSE LET file == st.current_file[1]
         IN [st EXCEPT
               !.current_file = None,
               !.deleted_files = IF st.in_delete THEN Append(@, file) ELSE @,
               !.new_files =
                   IF ~st.in_delete /\ st.in_new THEN Append(@, file) ELSE @]

\* if let Some(file) = current_file.take() { if in_new { new_files.push }
\* else if in_delete { deleted_files.push } }
flush_file(st) ==
    IF st.current_file = None THEN st
    ELSE LET file == st.current_file[1]
         IN [st EXCEPT
               !.current_file = None,
               !.new_files = IF st.in_new THEN Append(@, file) ELSE @,
               !.deleted_files =
                   IF ~st.in_new /\ st.in_delete THEN Append(@, file) ELSE @]

\* A variant of scan_header that keeps the header line as well.
scan_header_keep(st, line) ==
    [flush_file(st) EXCEPT !.in_delete = FALSE,
                           !.in_new = FALSE,
                           !.current_file = header_path(line),
                           !.filtered_lines = Append(@, line)]

\* The loop body for a line that starts a per-file section.
scan_header(st, line) ==
    [flush_file(st) EXCEPT !.in_delete = FALSE,
                           !.in_new = FALSE,
                           !.current_file = header_path(line)]

\* The loop body for a line that is neither a binary notice nor a header.
scan_other(st, line) ==
    LET in_delete == st.in_delete \/ StartsWith(line, DeletedMarker)
        in_new == st.in_new \/ (~StartsWith(line, DeletedMarker)
                                  /\ StartsWith(line, NewMarker))
    IN [st EXCEPT !.in_delete = in_delete,
                  !.in_new = in_new,
                  !.filtered_lines =
                      IF ~in_new /\ ~in_delete THEN Append(@, line) ELSE @]

\* The loop body (lines 230-263) for one line.
scan_line(st, line) ==
    IF StartsWith(line, BinaryPrefix) THEN st
    ELSE IF StartsWith(line, DiffGitPrefix) THEN scan_header(st, line)
    ELSE scan_other(st, line)

\* summary += "\n<title>\n"; for file in files { summary += "<bullet> file\n" }
RECURSIVE Bullets(_)
Bullets(files) ==
    IF files = <<>> THEN <<>>
    ELSE <<BULLET>> \o files[1] \o <<NL>> \o Bullets(Tail(files))

build_summary(st) ==
    (IF st.new_files # <<>>
     THEN <<NL, NewFilesTitle, NL>> \o Bullets(st.new_files) ELSE <<>>)
    \o
    (IF st.deleted_files # <<>>
     THEN <<NL, DeletedFilesTitle, NL>> \o Bullets(st.deleted_files) ELSE <<>>)

EmptyDiff == [ok |-> FALSE, err |-> "No diff content found"]
Ok(text) == [ok |-> TRUE, text |-> text]

\* A variant of filtered_result: is_empty() without trim().
filtered_result_notrim(st) ==
    LET filtered_diff == Join(st.filtered_lines) \o build_summary(st)
    IN IF filtered_diff = <<>> THEN EmptyDiff ELSE Ok(filtered_diff)

\* Lines 274-296: the summary appended to the joined lines, or the
\* "No diff content found" error.
filtered_result(st) ==
    LET filtered_diff == Join(st.filtered_lines) \o build_summary(st)
    IN IF TrimIsEmpty(filtered_diff) THEN EmptyDiff ELSE Ok(filtered_diff)

\* Lines 222-296 as a function of git's output.
RECURSIVE ScanAll(_, _)
ScanAll(st, lines) ==
    IF lines = <<>> THEN st ELSE ScanAll(scan_line(st, lines[1]), Tail(lines))

process_diff(diff) == filtered_result(flush_file(ScanAll(ScanStart, Lines(diff))))

\* The header git writes for the file at path p.
GitHeader(p) == <<"diff", SP, "--git", SP, "a/">> \o p \o <<SP, "b/">> \o p

\* The paths of the files in the inputs: f, a/g (g in a directory a),
\* and "my f" (a space in the name).
Paths == {<<"f">>, <<"a/", "g">>, <<"my", SP, "f">>}

\* The lines git's output is made of here: the headers, a binary notice,
\* the two null-device markers, a hunk line, an empty line and a blank
\* context line.
BinaryNotice == <<"Binary files", SP, "differ">>
HunkLine == <<"+x">>
BlankLine == <<SP>>
RawLineAlphabet ==
    {GitHeader(p) : p \in Paths}
      \cup {BinaryNotice, NewMarker, DeletedMarker, HunkLine, <<>>, BlankLine}

\* Bound of the normalizer's input.
MaxRawLines == 4

\* The outputs of git: nothing at all, or up to MaxRawLines lines, each
\* ended by "\n".
RawDiffs ==
    {<<>>} \cup {Join(ls) \o <<NL>> :
                    ls \in SeqsUpTo(RawLineAlphabet, MaxRawLines) \ {<<>>}}

NoDiff == [ok |-> FALSE, err |-> "-"]

ScanIdle ==
    [pc |-> "idle", diff |-> <<>>, lines |-> <<>>, i |-> 0,
     st |-> ScanStart, result |-> NoDiff]

----------------------------------------------------------------------------
(* main and generate_mr_comment                                            *)

\* enum ApiProvider
OpenAi == "openai"
Claude == "claude"

\* Result<T>
Err(msg) == [ok |-> FALSE, err |-> msg]

\* Option::or_else and Option::unwrap_or_else
OrElse(a, b) == IF a # None THEN a ELSE b
UnwrapOrElse(a, d) == IF a # None THEN a[1] ELSE d

\* Cli::parse(): --file conflicts with --commit, --provider defaults to
\* claude.
cli_parse(a) ==
    IF a.commit # None /\ a.file # None
    THEN Err("the argument '--file' cannot be used with '--commit'")
    ELSE [ok |-> TRUE,
          value |-> [a EXCEPT !.provider = UnwrapOrElse(a.provider, Claude)]]

\* The Config of an absent file.
EmptyConfig ==
    [openai_api_key |-> None, claude_api_key |-> None,
     openai_endpoint |-> None, claude_endpoint |-> None,
     openai_model |-> None, claude_model |-> None, provider |-> None]

\* What is at the config path: no home directory to look in, no file, a
\* file that cannot be read, one that is no JSON of a Config, or a Config.
NoConfigFile(state) == [state |-> state, content |-> EmptyConfig]
ConfigFile(content) == [state |-> "parsable", content |-> content]

\* Config::load()
config_load(file) ==
    IF file.state = "no home directory" THEN Err("Could not find home directory")
    ELSE IF file.state = "absent" THEN [ok |-> TRUE, value |-> EmptyConfig]
    ELSE IF file.state = "unreadable" THEN Err("Failed to read config file")
    ELSE IF file.state = "malformed" THEN Err("Failed to parse config file")
    ELSE [ok |-> TRUE, value |-> file.content]

\* let (default_endpoint, default_model, env_var_key) = match cli.provider
default_endpoint(provider) ==
    IF provider = OpenAi THEN "https://api.openai.com/v1/chat/completions"
    ELSE "https://api.anthropic.com/v1/messages"

default_model(provider) ==
    IF provider = OpenAi THEN "gpt-4-turbo" ELSE "claude-3-7-sonnet-20250219"

env_var_key(provider) ==
    IF provider = OpenAi THEN "OPENAI_API_KEY" ELSE "ANTHROPIC_API_KEY"

\* cli.api_key.or_else(env::var(env_var_key)).or_else(config.<provider>_api_key)
resolve_api_key(c, e, cfg) ==
    OrElse(OrElse(c.api_key, e[env_var_key(c.provider)]),
           IF c.provider = OpenAi THEN cfg.openai_api_key ELSE cfg.claude_api_key)

\* cli.endpoint.unwrap_or_else(config.<provider>_endpoint.unwrap_or_else(default))
resolve_endpoint(c, cfg) ==
    UnwrapOrElse(c.endpoint,
        IF c.provider = OpenAi
        THEN UnwrapOrElse(cfg.openai_endpoint, default_endpoint(c.provider))
        ELSE UnwrapOrElse(cfg.claude_endpoint, default_endpoint(c.provider)))

\* cli.model.unwrap_or_else(config.<provider>_model.unwrap_or_else(default))
resolve_model(c, cfg) ==
    UnwrapOrElse(c.model,
        IF c.provider = OpenAi
        THEN UnwrapOrElse(cfg.openai_model, default_model(c.provider))
        ELSE UnwrapOrElse(cfg.claude_model, default_model(c.provider)))

\* The arguments of the git command for --commit.  A commit is a token
\* sequence: a range holds the token "..".
git_diff_args(commit) ==
    IF commit = None THEN <<"diff">>
    ELSE LET commit_str == commit[1]
         IN IF \E i \in 1..Len(commit_str) : commit_str[i] = ".."
            THEN <<"diff", commit_str>>
            ELSE IF commit_str = <<"HEAD">> THEN <<"diff", <<"HEAD">> >>
            ELSE <<"diff", commit_str \o <<"^">>, commit_str>>

\* The maxima truncate_diff is called with.
GenerateMaxLines == 10000
DebugMaxLines == 4000

\* The length of a text in bytes. BULLET stands for three bytes and a space.
RECURSIVE ByteLen(_)
ByteLen(text) ==
    IF text = <<>> THEN 0
    ELSE (IF text[1] = BULLET THEN 4 ELSE Len(text[1])) + ByteLen(Tail(text))

\* (text.len() as f64 / 3.5).ceil() as usize
estimate_tokens(len) == (2 * len + 6) \div 7

\* PromptTemplate::system_message(): purpose, an empty line, instructions.
PromptPurpose == "Create standard gitlab MR comment"
PromptInstructions == "Carefully review the git-log ... focus analysis on the provided sections."
system_message == <<PromptPurpose, NL, NL, PromptInstructions>>

\* The length of the system message in bytes: the purpose (33), the two
\* newlines and the instructions as written in the source (962).
SystemMessageBytes == 997

\* The five lines of the debug report.
debug_report(d) ==
    LET t == truncate_diff(d, DebugMaxLines)
        diff_tokens == estimate_tokens(ByteLen(t.text))
        system_tokens == estimate_tokens(SystemMessageBytes)
    IN << <<"Token estimation:">>,
          <<"- System prompt: ", ToString(system_tokens), " tokens">>,
          <<"- Diff content: ", ToString(diff_tokens), " tokens (",
            ToString(t.original_len), " lines)">>,
          <<"- Total estimate: ", ToString(system_tokens + diff_tokens), " tokens">>,
          <<"Claude's limit: 200,000 tokens">> >>

\* format!("Git diff{}:\n\n{}", diff_warning, truncated_diff)
user_content(d) ==
    LET t == truncate_diff(d, GenerateMaxLines)
        diff_warning ==
            IF t.original_len > GenerateMaxLines
            THEN <<" (truncated from ", ToString(t.original_len), " lines)">>
            ELSE <<>>
    IN <<"Git diff">> \o diff_warning \o <<":", NL, NL>> \o t.text

\* The request of each provider.
openai_request(d, api_key, endpoint, model) ==
    [endpoint |-> endpoint,
     headers |-> [Authorization |-> <<"Bearer ", api_key>>],
     body |-> [model |-> model,
               messages |-> << [role |-> "system", content |-> system_message],
                               [role |-> "user", content |-> user_content(d)] >>]]

claude_request(d, api_key, endpoint, model) ==
    [endpoint |-> endpoint,
     headers |-> [x_api_key |-> api_key],
     body |-> [model |-> model,
               system |-> system_message,
               messages |-> << [role |-> "user", content |-> user_content(d)] >>]]

\* response.text().unwrap_or_else(|_| "Could not read error response")
error_text(r) == UnwrapOrElse(r.body, "Could not read error response")

\* What comes back: no response at all, a status that is no success with
\* its body (which may fail to be read), a body that does not parse, or
\* the parsed list (choices of OpenAI, content of Claude, a sequence of
\* [type, text]).
openai_result(r) ==
    IF r.kind = "transport" THEN Err("Failed to call OpenAI API")
    ELSE IF r.kind = "status" THEN Err("OpenAI API request failed: " \o error_text(r))
    ELSE IF r.kind = "unparsable" THEN Err("Failed to parse OpenAI API response")
    ELSE IF r.items = <<>> THEN Err("OpenAI API response contained no choices")
    ELSE [ok |-> TRUE, text |-> r.items[1].text]

claude_result(r) ==
    IF r.kind = "transport" THEN Err("Failed to call Claude API")
    ELSE IF r.kind = "status" THEN Err("Claude API request failed: " \o error_text(r))
    ELSE IF r.kind = "unparsable" THEN Err("Failed to parse Claude API response")
    ELSE IF r.items = <<>> THEN Err("Claude API response contained no content")
    ELSE IF \E i \in 1..Len(r.items) : r.items[i].type = "text"
         THEN [ok |-> TRUE,
               text |-> r.items[CHOOSE i \in 1..Len(r.items) :
                                   /\ r.items[i].type = "text"
                                   /\ \A j \in 1..(i-1) : r.items[j].type # "text"].text]
         ELSE Err("Claude API response contained no text content")

----------------------------------------------------------------------------
(* Inputs and states                                                       *)

\* The states of the output file: as it was before the run, cut or
\* partly written by a write that failed, or holding a text.
Untouched == [state |-> "untouched"]
Partial == [state |-> "partial"]
Written(text) == [state |-> "written", text |-> text]

Running == [status |-> "running", err |-> "-"]

\* The pipeline before main starts.
PipelineStart ==
    /\ pc = "parse"
    /\ cli = None /\ config = None /\ settings = None
    /\ git_args = None /\ main_diff = None /\ mr_comment = None
    /\ stages = <<>> /\ sent = <<>> /\ stdout = <<>>
    /\ out_file = Untouched /\ exit = Running

\* The pipeline in the specifications of the pure functions.
PipelineIdle ==
    /\ argv = None /\ env = None /\ config_file = NoConfigFile("absent")
    /\ pc = "idle"
    /\ cli = None /\ config = None /\ settings = None
    /\ git_args = None /\ main_diff = None /\ mr_comment = None
    /\ stages = <<>> /\ sent = <<>> /\ stdout = <<>>
    /\ out_file = Untouched /\ exit = Running

Opt(S) == {None} \cup {Some(x) : x \in S}

\* The command lines.
Commits == {<<"HEAD">>, <<"c1">>, <<"r1", "..", "r2">>}

Argvs(commits, files, outputs, endpoints, models, debugs) ==
    [commit : commits, file : files, output : outputs,
     api_key : Opt({"key-flag"}), provider : Opt({OpenAi, Claude}),
     endpoint : endpoints, model : models, debug : debugs]

Envs ==
    [OPENAI_API_KEY : Opt({"key-env-openai"}),
     ANTHROPIC_API_KEY : Opt({"key-env-anthropic"})]

\* The config files that parse.
Configs ==
    [openai_api_key : Opt({"key-cfg-openai"}), claude_api_key : Opt({"key-cfg-claude"}),
     openai_endpoint : Opt({"endpoint-cfg-openai"}), claude_endpoint : Opt({"endpoint-cfg-claude"}),
     openai_model : Opt({"model-cfg-openai"}), claude_model : Opt({"model-cfg-claude"}),
     provider : Opt({OpenAi, Claude})]

ConfigFiles ==
    {NoConfigFile(st) : st \in {"no home directory", "absent", "unreadable", "malformed"}}
      \cup {ConfigFile(c) : c \in Configs}

\* A config file with every field set.
FullConfig ==
    [openai_api_key |-> Some("key-cfg-openai"), claude_api_key |-> Some("key-cfg-claude"),
     openai_endpoint |-> Some("endpoint-cfg-openai"), claude_endpoint |-> Some("endpoint-cfg-claude"),
     openai_model |-> Some("model-cfg-openai"), claude_model |-> Some("model-cfg-claude"),
     provider |-> Some(OpenAi)]

\* The diffs of the pipeline: of a modified file, of an added file, of a
\* binary file and a modified one; and what a diff file may hold besides.
ModifiedDiff == Join(<<GitHeader(<<"f">>), <<"---", SP, "a/", "f">>, <<"+++", SP, "b/", "f">>, HunkLine>>) \o <<NL>>
AddedDiff == Join(<<GitHeader(<<"f">>), NewMarker, <<"+++", SP, "b/", "f">>, HunkLine>>) \o <<NL>>
BinaryDiff == Join(<<GitHeader(<<"f">>), BinaryNotice, GitHeader(<<"f">>), HunkLine>>) \o <<NL>>
BlankDiff == <<SP, NL>>

GitOutputs == {<<>>, BlankDiff, ModifiedDiff, AddedDiff, BinaryDiff}
FileContents == {<<>>, BlankDiff, ModifiedDiff, AddedDiff, BinaryDiff}

\* What the provider answers.
COMMENT == <<"Title", NL, NL, "## Key Changes:">>
ResponseFailures ==
    {[kind |-> "transport"], [kind |-> "status", body |-> Some("error body")],
     [kind |-> "status", body |-> None], [kind |-> "unparsable"]}
OpenAiResponses ==
    ResponseFailures \cup
    {[kind |-> "parsed", items |-> its] :
        its \in {<<>>, <<[type |-> "-", text |-> COMMENT]>>}}
ClaudeResponses ==
    ResponseFailures \cup
    {[kind |-> "parsed", items |-> its] :
        its \in {<<>>,
                 <<[type |-> "text", text |-> COMMENT]>>,
                 <<[type |-> "tool_use", text |-> <<>>]>>,
                 <<[type |-> "tool_use", text |-> <<>>],
                   [type |-> "text", text |-> COMMENT]>>}}

\* Bounds of the truncation inputs.
MaxDiffLines == 5
MaxMaxLines == 4

\* The lines a truncation input is made of: an empty line, two lines of
\* content, and a line that reads like the marker.
TruncLineAlphabet == {<<>>, <<"x">>, <<"y">>, <<TRUNCATED>>}

\* The input texts: up to MaxDiffLines lines joined by "\n", with or
\* without a final "\n".
TruncInputs ==
    {Join(ls) \o nl : ls \in SeqsUpTo(TruncLineAlphabet, MaxDiffLines),
                      nl \in {<<>>, <<NL>>}}

NoResult == [text |-> <<"-">>, original_len |-> 0]

TruncIdle ==
    [pc |-> "idle", diff |-> <<>>, max_lines |-> 0,
     first |-> NoResult, second |-> NoResult]

InitTrunc ==
    /\ scan = ScanIdle
    /\ PipelineIdle
    /\ trunc \in {[pc |-> "input", diff |-> d, max_lines |-> m,
                   first |-> NoResult, second |-> NoResult]
                     : d \in TruncInputs, m \in 0..MaxMaxLines}

\* truncate_diff applied to the input.
TruncateOnce ==
    /\ trunc.pc = "input"
    /\ trunc' = [trunc EXCEPT !.pc = "once",
                              !.first = truncate_diff(trunc.diff, trunc.max_lines)]
    /\ UNCHANGED <<scan, pvars>>

\* truncate_diff applied to its own output with the same maximum.
TruncateAgain ==
    /\ trunc.pc = "once"
    /\ trunc' = [trunc EXCEPT !.pc = "twice",
                              !.second = truncate_diff(trunc.first.text, trunc.max_lines)]
    /\ UNCHANGED <<scan, pvars>>

NextTrunc == TruncateOnce \/ TruncateAgain

SpecTrunc == InitTrunc /\ [][NextTrunc]_vars

InitNorm ==
    /\ trunc = TruncIdle
    /\ PipelineIdle
    /\ scan \in {[pc |-> "scan", diff |-> d, lines |-> Lines(d), i |-> 1,
                  st |-> ScanStart, result |-> NoDiff] : d \in RawDiffs}

\* The line the loop is at.
ThisLine == scan.lines[scan.i]

\* A binary notice: continue.
ScanBinary ==
    /\ scan.pc = "scan" /\ scan.i <= Len(scan.lines)
    /\ StartsWith(ThisLine, BinaryPrefix)
    /\ scan' = [scan EXCEPT !.i = @ + 1, !.st = scan_line(scan.st, ThisLine)]
    /\ UNCHANGED <<trunc, pvars>>

\* A per-file header: flush, reset, capture the path, continue.
ScanHeader ==
    /\ scan.pc = "scan" /\ scan.i <= Len(scan.lines)
    /\ ~StartsWith(ThisLine, BinaryPrefix)
    /\ StartsWith(ThisLine, DiffGitPrefix)
    /\ scan' = [scan EXCEPT !.i = @ + 1, !.st = scan_line(scan.st, ThisLine)]
    /\ UNCHANGED <<trunc, pvars>>

\* Any other line: the markers set the flags, the line is kept or not.
ScanOther ==
    /\ scan.pc = "scan" /\ scan.i <= Len(scan.lines)
    /\ ~StartsWith(ThisLine, BinaryPrefix)
    /\ ~StartsWith(ThisLine, DiffGitPrefix)
    /\ scan' = [scan EXCEPT !.i = @ + 1, !.st = scan_line(scan.st, ThisLine)]
    /\ UNCHANGED <<trunc, pvars>>

\* The end of the input: the last file is flushed, the summary built and
\* the result returned.
ScanFinish ==
    /\ scan.pc = "scan" /\ scan.i > Len(scan.lines)
    /\ LET st == flush_file(scan.st)
       IN scan' = [scan EXCEPT !.pc = "done", !.st = st,
                               !.result = filtered_result(st)]
    /\ UNCHANGED <<trunc, pvars>>

NextNorm == ScanBinary \/ ScanHeader \/ ScanOther \/ ScanFinish

SpecNorm == InitNorm /\ [][NextNorm]_vars

----------------------------------------------------------------------------
(* main                                                                    *)

\* The run ends with an error returned from main.
Fail(msg) ==
    /\ exit' = [status |-> "error", err |-> msg]
    /\ pc' = "exit"

\* let cli = Cli::parse();
CliParse ==
    /\ pc = "parse"
    /\ LET r == cli_parse(argv)
       IN IF r.ok
          THEN cli' = Some(r.value) /\ pc' = "load_config" /\ UNCHANGED exit
          ELSE /\ exit' = [status |-> "usage", err |-> r.err]
               /\ pc' = "exit"
               /\ UNCHANGED cli
    /\ UNCHANGED <<trunc, scan, argv, env, config_file, config, settings,
                   git_args, main_diff, mr_comment, stages, sent, stdout, out_file>>

\* let config = Config::load()?;
ConfigLoad ==
    /\ pc = "load_config"
    /\ LET r == config_load(config_file)
       IN IF r.ok
          THEN config' = Some(r.value) /\ pc' = "resolve" /\ UNCHANGED exit
          ELSE Fail(r.err) /\ UNCHANGED config
    /\ UNCHANGED <<trunc, scan, argv, env, config_file, cli, settings,
                   git_args, main_diff, mr_comment, stages, sent, stdout, out_file>>

\* Lines 430-469: the API key, the endpoint and the model.
ResolveSettings ==
    /\ pc = "resolve"
    /\ LET api_key == resolve_api_key(cli[1], env, config[1])
       IN IF api_key = None
          THEN Fail("API key is required") /\ UNCHANGED settings
          ELSE /\ settings' = Some([api_key |-> api_key[1],
                                    endpoint |-> resolve_endpoint(cli[1], config[1]),
                                    model |-> resolve_model(cli[1], config[1])])
               /\ pc' = "get_diff"
               /\ UNCHANGED exit
    /\ UNCHANGED <<trunc, scan, argv, env, config_file, cli, config,
                   git_args, main_diff, mr_comment, stages, sent, stdout, out_file>>

\* Lines 473-479: the diff is the content of the file of --file.
ReadDiffFile ==
    /\ pc = "get_diff"
    /\ cli[1].file # None
    /\ \/ /\ \E msg \in {"Failed to open file", "Failed to read file"} : Fail(msg)
          /\ UNCHANGED main_diff
       \/ /\ \E content \in FileContents : main_diff' = Some(content)
          /\ pc' = IF cli[1].debug THEN "debug" ELSE "generate"
          /\ UNCHANGED exit
    /\ stages' = Append(stages, "acquire")
    /\ UNCHANGED <<trunc, scan, argv, env, config_file, cli, config, settings,
                   git_args, mr_comment, sent, stdout, out_file>>

\* get_diff_from_git(&cli)?: git is run and its output normalized.
GetDiffFromGit ==
    /\ pc = "get_diff"
    /\ cli[1].file = None
    /\ git_args' = Some(git_diff_args(cli[1].commit))
    /\ \/ /\ \E msg \in {"Failed to execute git command", "Git command failed",
                         "Failed to parse git output as UTF-8"} : Fail(msg)
          /\ stages' = Append(stages, "acquire")
          /\ UNCHANGED main_diff
       \/ \E output \in GitOutputs :
             LET r == process_diff(output)
             IN /\ stages' = stages \o <<"acquire", "normalize">>
                /\ IF r.ok
                   THEN /\ main_diff' = Some(r.text)
                        /\ pc' = IF cli[1].debug THEN "debug" ELSE "generate"
                        /\ UNCHANGED exit
                   ELSE Fail(r.err) /\ UNCHANGED main_diff
    /\ UNCHANGED <<trunc, scan, argv, env, config_file, cli, config, settings,
                   mr_comment, sent, stdout, out_file>>

\* println!: the line is printed, or the write to standard output fails
\* before or within it and println! panics.
PrintOutcomes == {"printed", "failed", "failed within"}
Printed(out, line, outcome) ==
    IF outcome = "printed" THEN Append(out, [line |-> line, whole |-> TRUE])
    ELSE IF outcome = "failed within" THEN Append(out, [line |-> line, whole |-> FALSE])
    ELSE out

\* The line that reports the output file.
written_notice(path) == <<"MR comment written to ", path>>

Panic ==
    /\ exit' = [status |-> "panic", err |-> "failed printing to stdout"]
    /\ pc' = "exit"

Return ==
    /\ exit' = [status |-> "ok", err |-> "-"]
    /\ pc' = "exit"

\* Lines 486-498: the token estimate is printed, line by line, and main
\* returns.
DebugEstimate ==
    /\ pc = "debug"
    /\ LET report == debug_report(main_diff[1])
       IN \E n \in 0..Len(report) :
             /\ stdout' = stdout \o [i \in 1..n |-> [line |-> report[i], whole |-> TRUE]]
             /\ IF n = Len(report) THEN Return ELSE Panic
    /\ stages' = Append(stages, "truncate")
    /\ UNCHANGED <<trunc, scan, argv, env, config_file, cli, config, settings,
                   git_args, main_diff, mr_comment, sent, out_file>>

\* generate_mr_comment(...)? for ApiProvider::OpenAi
GenerateOpenAi ==
    /\ pc = "generate"
    /\ cli[1].provider = OpenAi
    /\ stages' = stages \o <<"truncate", "prompt", "request">>
    /\ \E response \in OpenAiResponses :
          LET r == openai_result(response)
          IN /\ sent' = Append(sent,
                    [request |-> openai_request(main_diff[1], settings[1].api_key,
                                            settings[1].endpoint, settings[1].model),
                     response |-> response])
             /\ IF r.ok
                THEN mr_comment' = Some(r.text) /\ pc' = "output" /\ UNCHANGED exit
                ELSE Fail(r.err) /\ UNCHANGED mr_comment
    /\ UNCHANGED <<trunc, scan, argv, env, config_file, cli, config, settings,
                   git_args, main_diff, stdout, out_file>>

\* A variant of GenerateClaude that tries again after a transport failure.
GenerateClaude_retry ==
    /\ pc = "generate"
    /\ cli[1].provider = Claude
    /\ stages' = stages \o <<"truncate", "prompt", "request">>
    /\ \E response \in ClaudeResponses :
          LET r == claude_result(response)
          IN /\ sent' = Append(sent,
                    [request |-> claude_request(main_diff[1], settings[1].api_key,
                                                settings[1].endpoint, settings[1].model),
                     response |-> response])
             /\ IF r.ok
                THEN mr_comment' = Some(r.text) /\ pc' = "output" /\ UNCHANGED exit
                ELSE IF response.kind = "transport"
                THEN UNCHANGED <<pc, exit, mr_comment>>
                ELSE Fail(r.err) /\ UNCHANGED mr_comment
    /\ UNCHANGED <<trunc, scan, argv, env, config_file, cli, config, settings,
                   git_args, main_diff, stdout, out_file>>

\* generate_mr_comment(...)? for ApiProvider::Claude
GenerateClaude ==
    /\ pc = "generate"
    /\ cli[1].provider = Claude
    /\ stages' = stages \o <<"truncate", "prompt", "request">>
    /\ \E response \in ClaudeResponses :
          LET r == claude_result(response)
          IN /\ sent' = Append(sent,
                    [request |-> claude_request(main_diff[1], settings[1].api_key,
                                            settings[1].endpoint, settings[1].model),
                     response |-> response])
             /\ IF r.ok
                THEN mr_comment' = Some(r.text) /\ pc' = "output" /\ UNCHANGED exit
                ELSE Fail(r.err) /\ UNCHANGED mr_comment
    /\ UNCHANGED <<trunc, scan, argv, env, config_file, cli, config, settings,
                   git_args, main_diff, stdout, out_file>>

\* fs::write(&output_path, &mr_comment)?: File::create and write_all.  The
\* file cannot be created, or it is created (and cut) and the write fails,
\* or the text is written.
WriteOutputFile ==
    /\ pc = "output"
    /\ cli[1].output # None
    /\ \/ /\ out_file' = out_file
          /\ Fail("Failed to write to file")
       \/ /\ out_file' = Partial
          /\ Fail("Failed to write to file")
       \/ /\ out_file' = Written(mr_comment[1])
          /\ pc' = "written"
          /\ UNCHANGED exit
    /\ stages' = Append(stages, "write")
    /\ UNCHANGED <<trunc, scan, argv, env, config_file, cli, config, settings,
                   git_args, main_diff, mr_comment, sent, stdout>>

\* println!("MR comment written to {}", output_path.display()); Ok(())
PrintWritten ==
    /\ pc = "written"
    /\ \E outcome \in PrintOutcomes :
          /\ stdout' = Printed(stdout, written_notice(cli[1].output[1]), outcome)
          /\ IF outcome = "printed" THEN Return ELSE Panic
    /\ UNCHANGED <<trunc, scan, argv, env, config_file, cli, config, settings,
                   git_args, main_diff, mr_comment, stages, sent, out_file>>

\* println!("{}", mr_comment); Ok(())
PrintComment ==
    /\ pc = "output"
    /\ cli[1].output = None
    /\ \E outcome \in PrintOutcomes :
          /\ stdout' = Printed(stdout, mr_comment[1], outcome)
          /\ IF outcome = "printed" THEN Return ELSE Panic
    /\ stages' = Append(stages, "write")
    /\ UNCHANGED <<trunc, scan, argv, env, config_file, cli, config, settings,
                   git_args, main_diff, mr_comment, sent, out_file>>

\* The runs of the whole program: every source of the diff, every
\* destination, both providers, with and without --debug; the key from
\* the flag, from the environment, from the config file or from nowhere.
Init ==
    /\ trunc = TruncIdle /\ scan = ScanIdle
    /\ argv \in Argvs(Opt(Commits), Opt({"diff.txt"}), Opt({"out.md"}),
                      {None}, {None}, BOOLEAN)
    /\ env \in {[OPENAI_API_KEY |-> None, ANTHROPIC_API_KEY |-> None],
                [OPENAI_API_KEY |-> Some("key-env-openai"),
                 ANTHROPIC_API_KEY |-> Some("key-env-anthropic")]}
    /\ config_file \in {NoConfigFile("absent"), NoConfigFile("malformed"),
                        ConfigFile(FullConfig)}
    /\ PipelineStart

Next ==
    \/ CliParse \/ ConfigLoad \/ ResolveSettings
    \/ ReadDiffFile \/ GetDiffFromGit
    \/ DebugEstimate \/ GenerateOpenAi \/ GenerateClaude
    \/ WriteOutputFile \/ PrintWritten \/ PrintComment

Spec == Init /\ [][Next]_vars

\* The start of main alone, over every combination of the sources of the
\* settings.
InitStartup ==
    /\ trunc = TruncIdle /\ scan = ScanIdle
    /\ argv \in Argvs({None}, {None}, {None},
                      Opt({"endpoint-flag"}), Opt({"model-flag"}), {FALSE})
    /\ env \in Envs
    /\ config_file \in ConfigFiles
    /\ PipelineStart

NextStartup == CliParse \/ ConfigLoad \/ ResolveSettings

SpecStartup == InitStartup /\ [][NextStartup]_vars

----------------------------------------------------------------------------
(* Claims about truncate_diff, checked under SpecTrunc                      *)

InputLines == Lines(trunc.diff)
Half == trunc.max_lines \div 2
HeadLines == SubSeq(InputLines, 1, Half)
TailLines == SubSeq(InputLines, Len(InputLines) - Half + 1, Len(InputLines))
MarkerLine == <<TRUNCATED>>

\* t without its last line when that line is empty.
WithoutEmptyLast(t) ==
    IF Len(t) > 0 /\ t[Len(t)] = <<>> THEN SubSeq(t, 1, Len(t) - 1) ELSE t

C2_NoOp ==
    (trunc.pc # "input" /\ Len(InputLines) <= trunc.max_lines) =>
        /\ trunc.first.text = trunc.diff
        /\ trunc.first.original_len = Len(InputLines)

\* An input of exactly M lines, ending in "\n", went through unchanged.
C2_Witness ==
    /\ trunc.pc = "once"
    /\ trunc.max_lines = 3
    /\ Len(InputLines) = 3
    /\ trunc.diff[Len(trunc.diff)] = NL
    /\ trunc.first.text = trunc.diff

C3_DegenerateReached ==
    /\ trunc.pc = "twice"
    /\ trunc.max_lines <= 1
    /\ Len(InputLines) > trunc.max_lines
    /\ trunc.second.original_len = 2

----------------------------------------------------------------------------
(* Claims about the normalizer, checked under SpecNorm                     *)

\* What the claims say of git's output, stated on the positions of its
\* lines and without the scan's flags.
RawLines == Lines(scan.diff)
NormDone == scan.pc = "done"

IsBinaryLine(l) == StartsWith(l, BinaryPrefix)
IsHeaderLine(l) == StartsWith(l, DiffGitPrefix)
IsNewMarker(l) == StartsWith(l, NewMarker)
IsDeletedMarker(l) == StartsWith(l, DeletedMarker)
IsNullMarker(l) == IsNewMarker(l) \/ IsDeletedMarker(l)

\* The positions of the per-file headers.
Headers(ls) == {h \in 1..Len(ls) : IsHeaderLine(ls[h])}

\* The header of the section position i lies in, 0 before the first one.
SectionOf(ls, i) ==
    IF \E h \in Headers(ls) : h <= i
    THEN CHOOSE h \in Headers(ls) : h <= i /\ \A k \in Headers(ls) : k <= i => k <= h
    ELSE 0

\* The positions of the section that header h starts, h excluded.
SectionBody(ls, h) == {i \in (h+1)..Len(ls) : SectionOf(ls, i) = h}

\* A null-device marker stands at or before position i in i's section.
Elided(ls, i) ==
    \E j \in (SectionOf(ls, i) + 1)..i : IsNullMarker(ls[j])

Survives(ls, i) ==
    ~IsBinaryLine(ls[i]) /\ ~IsHeaderLine(ls[i]) /\ ~Elided(ls, i)

\* The surviving lines of ls from position i on, in order.
RECURSIVE SurvivorsFrom(_, _)
SurvivorsFrom(ls, i) ==
    IF i > Len(ls) THEN <<>>
    ELSE (IF Survives(ls, i) THEN <<ls[i]>> ELSE <<>>) \o SurvivorsFrom(ls, i + 1)

Survivors(ls) == SurvivorsFrom(ls, 1)

\* ls without its per-file header lines and its binary notices.
IsOrdinaryLine(l) == ~IsBinaryLine(l) /\ ~IsHeaderLine(l)
OrdinaryLines(ls) == SelectSeq(ls, IsOrdinaryLine)

\* The path of the file whose header git wrote as line l.
PathOfHeader(l) == CHOOSE p \in Paths : l = GitHeader(p)

\* The first null-device marker of section h is the pre-image one.
AddedSection(ls, h) ==
    \E j \in SectionBody(ls, h) :
        /\ IsNewMarker(ls[j])
        /\ \A k \in SectionBody(ls, h) : k < j => ~IsNullMarker(ls[k])

\* Section h carries the post-image marker.
DeletedSection(ls, h) ==
    \E j \in SectionBody(ls, h) : IsDeletedMarker(ls[j])

\* The paths bulleted under the title line in a normalized text.
Entries(text, title) ==
    LET ls == Lines(text)
    IN IF \E t \in 1..Len(ls) : ls[t] = <<title>>
       THEN LET t == CHOOSE t \in 1..Len(ls) : ls[t] = <<title>>
            IN {Tail(ls[j]) : j \in {j \in (t+1)..Len(ls) :
                    \A k \in (t+1)..j : StartsWith(ls[k], <<BULLET>>)}}
       ELSE {}

HasSummary(text) ==
    \E i \in 1..Len(Lines(text)) :
        Lines(text)[i] \in {<<NewFilesTitle>>, <<DeletedFilesTitle>>}

NoNullMarkers(ls) == \A i \in 1..Len(ls) : ~IsNullMarker(ls[i])

\* C4 as claimed: the normalized diff of an input without null-device
\* markers has the input's lines, line for line, and no summary section.
C4_AsClaimed ==
    (NormDone /\ NoNullMarkers(RawLines) /\ scan.result.ok) =>
        /\ scan.st.filtered_lines = RawLines
        /\ scan.result.text = Join(RawLines)
        /\ ~HasSummary(scan.result.text)

\* C4 amended: of an input without null-device markers, normalization
\* fails with "No diff content found" when nothing but white space is left
\* after the per-file header lines and the binary notices are removed, and
\* otherwise returns the input's other lines, verbatim and in order, joined
\* by "\n" (a last kept line that is empty is thereby no line of the
\* result), with no summary section.
C4_VerbatimButHeaders ==
    (NormDone /\ NoNullMarkers(RawLines)) =>
        LET kept == OrdinaryLines(RawLines)
        IN IF TrimIsEmpty(Join(kept))
           THEN scan.result = EmptyDiff
           ELSE /\ scan.result.ok
                /\ scan.result.text = Join(kept)
                /\ Lines(scan.result.text) = WithoutEmptyLast(kept)
                /\ ~HasSummary(scan.result.text)

\* A modified file: its header was dropped and its lines came through.
C4_Witness ==
    /\ NormDone /\ NoNullMarkers(RawLines)
    /\ scan.result.ok
    /\ Len(RawLines) = 4
    /\ IsHeaderLine(RawLines[1])
    /\ Lines(scan.result.text) = Tail(RawLines)

\* The lines the scan keeps are those outside the binary notices, the
\* headers and the elided part of every section.
KeepsSurvivors ==
    NormDone => scan.st.filtered_lines = Survivors(RawLines)

\* C5 as claimed: for every section whose first null-device marker is the
\* pre-image one, the path of its file is bulleted under "New files:" in
\* the result and none of its lines from the marker on is kept.
C5_AsClaimed ==
    NormDone =>
        \A h \in Headers(RawLines) :
            AddedSection(RawLines, h) =>
                /\ scan.result.ok
                /\ PathOfHeader(RawLines[h]) \in Entries(scan.result.text, NewFilesTitle)
                /\ scan.st.filtered_lines = Survivors(RawLines)

\* C6 as claimed: for every section that carries the post-image marker,
\* the path of its file is bulleted under "Deleted files:" and not under
\* "New files:", and none of its lines from the marker on is kept.
C6_AsClaimed ==
    NormDone =>
        \A h \in Headers(RawLines) :
            DeletedSection(RawLines, h) =>
                /\ scan.result.ok
                /\ PathOfHeader(RawLines[h]) \in Entries(scan.result.text, DeletedFilesTitle)
                /\ PathOfHeader(RawLines[h]) \notin Entries(scan.result.text, NewFilesTitle)
                /\ scan.st.filtered_lines = Survivors(RawLines)

\* Every file of the input is an added file: each section starts with the
\* pre-image marker and nothing precedes the first header.
AllAdded(ls) ==
    /\ Len(ls) > 0 /\ IsHeaderLine(ls[1])
    /\ \A h \in Headers(ls) : h < Len(ls) /\ IsNewMarker(ls[h + 1])

\* Nothing but white space survives and no section carries a marker.
NothingLeft(ls) ==
    /\ \A i \in 1..Len(ls) : Survives(ls, i) => TrimIsEmpty(ls[i])
    /\ \A h \in Headers(ls) : \A j \in SectionBody(ls, h) : ~IsNullMarker(ls[j])

\* C7 as claimed: normalization fails with "No diff content found"
\* whenever nothing but white space is left, and it fails for the empty
\* input and for an input in which every file is an added file.
C7_AsClaimed ==
    NormDone =>
        /\ NothingLeft(RawLines) => scan.result = EmptyDiff
        /\ scan.diff = <<>> => scan.result = EmptyDiff
        /\ AllAdded(RawLines) => scan.result = EmptyDiff

\* C7 amended: normalization fails with "No diff content found" exactly
\* when no surviving line has anything but white space and no section
\* carries a null-device marker; so it fails for the empty input, and for
\* an input in which every file is an added file it does not fail but
\* returns the "New files:" summary alone.
C7_EmptyDiff ==
    NormDone =>
        /\ scan.result = EmptyDiff <=> NothingLeft(RawLines)
        /\ scan.diff = <<>> => scan.result = EmptyDiff
        /\ AllAdded(RawLines) =>
              /\ scan.result.ok
              /\ Entries(scan.result.text, NewFilesTitle) # {}
              /\ \A i \in 1..Len(Lines(scan.result.text)) :
                    LET l == Lines(scan.result.text)[i]
                    IN l = <<>> \/ l = <<NewFilesTitle>> \/ StartsWith(l, <<BULLET>>)

\* An input of blank lines, a header and a binary notice was rejected.
C7_Witness ==
    /\ NormDone
    /\ scan.result = EmptyDiff
    /\ \E i \in 1..Len(RawLines) : RawLines[i] = BlankLine
    /\ \E i \in 1..Len(RawLines) : IsHeaderLine(RawLines[i])
    /\ \E i \in 1..Len(RawLines) : IsBinaryLine(RawLines[i])

\* An input of two added files came out as the summary alone.
C7_AllAddedReached ==
    /\ NormDone
    /\ AllAdded(RawLines)
    /\ Cardinality(Headers(RawLines)) = 2
    /\ scan.result.ok

----------------------------------------------------------------------------
(* Claims about main, checked under Spec and SpecStartup                   *)

StageOrder == <<"acquire", "normalize", "truncate", "prompt", "request", "write">>
StageRank(st) == CHOOSE k \in 1..Len(StageOrder) : StageOrder[k] = st

\* C8 as claimed: in every run the stages occur in the order acquire,
\* normalize, truncate, build prompt, provider call, write result, and a
\* diff is truncated or sent only after it has been normalized: by then it
\* holds no binary notice and is not blank.
C8_AsClaimed ==
    /\ \A i, j \in 1..Len(stages) :
          i < j => StageRank(stages[i]) < StageRank(stages[j])
    /\ \A i \in 1..Len(stages) :
          stages[i] \in {"truncate", "request"} =>
              /\ \E j \in 1..(i-1) : stages[j] = "normalize"
              /\ ~TrimIsEmpty(main_diff[1])
              /\ \A k \in 1..Len(Lines(main_diff[1])) :
                    ~StartsWith(Lines(main_diff[1])[k], BinaryPrefix)

\* The first of the sources, in the order given, that supplies a value.
RECURSIVE FirstOf(_)
FirstOf(sources) ==
    IF sources = <<>> THEN None
    ELSE IF sources[1] # None THEN sources[1]
    ELSE FirstOf(Tail(sources))

\* C9 as claimed: once the settings are resolved, the provider is the one
\* of the flag, else of the config file, else claude; the API key is the
\* one of the flag, else of the provider's environment variable, else of
\* the config file, and the run fails when none supplies it; the endpoint
\* and the model are those of the flag, else of the config file, else the
\* provider's defaults.
C9_AsClaimed ==
    (config # None /\ pc \in {"get_diff", "exit"}) =>
        LET file == config_file.content
            provider == FirstOf(<<argv.provider, file.provider, Some(Claude)>>)[1]
            api_key == FirstOf(<<argv.api_key, env[env_var_key(provider)],
                                 IF provider = OpenAi THEN file.openai_api_key
                                 ELSE file.claude_api_key>>)
            endpoint == FirstOf(<<argv.endpoint,
                                  IF provider = OpenAi THEN file.openai_endpoint
                                  ELSE file.claude_endpoint,
                                  Some(default_endpoint(provider))>>)
            model == FirstOf(<<argv.model,
                               IF provider = OpenAi THEN file.openai_model
                               ELSE file.claude_model,
                               Some(default_model(provider))>>)
        IN IF api_key = None
           THEN exit = [status |-> "error", err |-> "API key is required"]
           ELSE /\ exit.status = "running"
                /\ cli[1].provider = provider
                /\ settings = Some([api_key |-> api_key[1], endpoint |-> endpoint[1],
                                    model |-> model[1]])

\* The run ended in an error: main returned one, println! panicked, or
\* the command line was rejected.
Failed == exit.status \in {"error", "panic", "usage"}

\* Something of the result is on standard output: the comment, whole or
\* in part, or the line that reports the output file.
ResultOnStdout ==
    \E i \in 1..Len(stdout) :
        \/ mr_comment # None /\ stdout[i].line = mr_comment[1]
        \/ cli # None /\ cli[1].output # None
              /\ stdout[i].line = written_notice(cli[1].output[1])

\* C10 as claimed: when a run has ended in an error, no step follows, and
\* nothing has been written to standard output or to the output file.
C10_AsClaimed ==
    Failed =>
        /\ ~ENABLED Next
        /\ ~ResultOnStdout
        /\ out_file = Untouched

\* The provider's name in the error messages of generate_mr_comment.
ProviderName == IF cli[1].provider = OpenAi THEN "OpenAI" ELSE "Claude"

\* C11: at most one request is sent in a run, and none in debug mode; when
\* the request met a transport failure or a status that is no success, the
\* run has ended in an error, no step (so no second request) follows, and
\* the error of a failed status carries the body the provider sent.
C11_SingleRequest ==
    /\ Len(sent) <= 1
    /\ (cli # None /\ cli[1].debug) => sent = <<>>
    /\ \A i \in 1..Len(sent) :
          LET response == sent[i].response
          IN response.kind \in {"transport", "status"} =>
                /\ i = Len(sent)
                /\ pc = "exit"
                /\ exit.status = "error"
                /\ ~ENABLED Next
                /\ response.kind = "transport" =>
                      exit.err = "Failed to call " \o ProviderName \o " API"
                /\ response.kind = "status" =>
                      exit.err = ProviderName \o " API request failed: " \o
                                 (IF response.body # None THEN response.body[1]
                                  ELSE "Could not read error response")

\* A request was answered by a status that is no success, with a body, and
\* the run ended in the error that carries it.
C11_Witness ==
    /\ Len(sent) = 1
    /\ sent[1].response = [kind |-> "status", body |-> Some("error body")]
    /\ exit = [status |-> "error", err |-> "Claude API request failed: error body"]

\* A run in debug mode printed its whole report and ended.
C11_DebugReached ==
    /\ cli # None /\ cli[1].debug
    /\ exit.status = "ok"
    /\ Len(stdout) = 5
    /\ sent = <<>>

----------------------------------------------------------------------------
(* The scan as an explicit state machine, checked under SpecNorm           *)

\* The four states.  The machine also holds the path captured at the last
\* header (none before the first one), the surviving lines and the two
\* lists of files.
MachineStates == {"Idle", "InModifiedFile", "InAddedFile", "InDeletedFile"}

MachineStart ==
    [state |-> "Idle", path |-> None, lines |-> <<>>, added |-> <<>>, deleted |-> <<>>]

\* The exit transition, taken at each header and at the end of the input:
\* the file left behind is recorded according to the state.
machine_exit(m) ==
    IF m.path = None THEN m
    ELSE [m EXCEPT
            !.path = None,
            !.added = IF m.state = "InAddedFile" THEN Append(@, m.path[1]) ELSE @,
            !.deleted = IF m.state = "InDeletedFile" THEN Append(@, m.path[1]) ELSE @]

\* The transition for one line.  A binary notice changes nothing; a header
\* exits the section and enters the next; the pre-image marker enters
\* InAddedFile from every state; the post-image marker enters
\* InDeletedFile unless the state is InAddedFile; any other line survives
\* in Idle and InModifiedFile only.
machine_step(m, line) ==
    IF StartsWith(line, BinaryPrefix) THEN m
    ELSE IF StartsWith(line, DiffGitPrefix)
    THEN [machine_exit(m) EXCEPT
            !.state = IF header_path(line) = None THEN "Idle" ELSE "InModifiedFile",
            !.path = header_path(line)]
    ELSE IF StartsWith(line, DeletedMarker)
    THEN [m EXCEPT !.state = IF @ = "InAddedFile" THEN @ ELSE "InDeletedFile"]
    ELSE IF StartsWith(line, NewMarker)
    THEN [m EXCEPT !.state = "InAddedFile"]
    ELSE IF m.state \in {"Idle", "InModifiedFile"}
    THEN [m EXCEPT !.lines = Append(@, line)]
    ELSE m

RECURSIVE MachineRun(_, _)
MachineRun(m, lines) ==
    IF lines = <<>> THEN m ELSE MachineRun(machine_step(m, lines[1]), Tail(lines))

\* The state of the machine that stands for the values of the flags.
StateOf(st) ==
    IF st.in_new THEN "InAddedFile"
    ELSE IF st.in_delete THEN "InDeletedFile"
    ELSE IF st.current_file = None THEN "Idle"
    ELSE "InModifiedFile"

\* The sections of ls that carry a null-device marker.
FlaggedSections(ls) ==
    {h \in Headers(ls) : \E j \in SectionBody(ls, h) : IsNullMarker(ls[j])}

\* C12: after every line of the scan, and after the flush at the end of
\* the input, the flags stand for the state the four-state machine is in
\* after the same lines, and the scan and the machine hold the same
\* surviving lines, the same captured path and the same lists of added and
\* of deleted files; at the end each section with a null-device marker has
\* put one entry in one of the two lists.
C12_Equivalent ==
    scan.pc \in {"scan", "done"} =>
        LET done == scan.pc = "done"
            seen == IF done THEN scan.lines ELSE SubSeq(scan.lines, 1, scan.i - 1)
            run == MachineRun(MachineStart, seen)
            m == IF done THEN machine_exit(run) ELSE run
        IN /\ m.state \in MachineStates
           /\ ~done => m.state = StateOf(scan.st)
           /\ m.path = scan.st.current_file
           /\ m.lines = scan.st.filtered_lines
           /\ m.added = scan.st.new_files
           /\ m.deleted = scan.st.deleted_files
           /\ done => Len(scan.st.new_files) + Len(scan.st.deleted_files)
                         = Cardinality(FlaggedSections(scan.lines))

\* A marker stood before any header and the section of f carried both
\* markers, the post-image one first: f was recorded as added.
C12_Witness ==
    /\ NormDone
    /\ RawLines = <<NewMarker, GitHeader(<<"f">>), DeletedMarker, NewMarker>>
    /\ scan.st.filtered_lines = <<>>
    /\ scan.st.new_files = << <<"f">> >>
    /\ scan.st.deleted_files = <<>>

=============================================================================
